---- MODULE Spec2Model ----
(***************************************************************************)
(* A model of the wiki-summary backend: the TTL cache (backend/cache.py),  *)
(* the sliding-window rate limiter (backend/rate_limiter.py) and the       *)
(* request handlers of the FastAPI application (backend/api.py).           *)
(*                                                                         *)
(* Time is counted in units of 1/Res second, so that fractional ages of a  *)
(* timestamp are representable.  Optional values are tuples of length 0    *)
(* (None) or 1.                                                            *)
(***************************************************************************)
EXTENDS Integers, Sequences, FiniteSets, TLC

\* ------------------------------------------------------------------ bounds
Res == 2            \* time units per second
MaxTicks == 2       \* number of times the clock advances in one behaviour
MaxLimit == 2       \* largest settings.rate_limit_per_minute tried
TtlSeconds == 60    \* settings.cache_ttl_seconds tried (its minimum is 60)
MaxLen == 3         \* longest text given to the token functions
MaxBudget == 2      \* largest max_tokens given to truncate_to_tokens

\* -------------------------------------------------------- program constants
WindowSeconds == 60         \* rate_limiter.py: minute_ago = current_time - 60
DefaultRetryAfter == 60     \* api.py: retry_after or 60
HTTP_200 == 200             \* api.py: a route's default status code
HTTP_404 == 404
HTTP_429 == 429
HTTP_500 == 500

\* --------------------------------------------------------------- universes
Clients == {"c1", "c2"}
\* queries as tuples of characters; <<"A">> and <<"a", " ">> share a key
Queries == {<<"A">>, <<"a", " ">>, <<"b">>}
Texts == {"t1"}
Urls == {"u1"}
Summaries == {"s1", "s2"}
Window == WindowSeconds * Res
Ttl == TtlSeconds * Res
\* the clock advances by one unit, or to one unit short of a boundary
TickSteps == {1, Window - 1, Ttl - 1}

None == <<>>
Some(x) == <<x>>
\* a test that takes every string, the empty one too, for a value
TruthyNotNone(o) == o # None

\* Python truthiness of an Optional[str]: None and "" are falsy
Truthy(o) == o # None /\ o[1] # ""

\* ------------------------------------------------------------ pure helpers
RECURSIVE SelectSeqGt(_, _)
\* [x for x in s if x > bound]
SelectSeqGt(s, bound) ==
    IF s = <<>> THEN <<>>
    ELSE IF Head(s) > bound THEN <<Head(s)>> \o SelectSeqGt(Tail(s), bound)
    ELSE SelectSeqGt(Tail(s), bound)

RECURSIVE SeqMin(_)
\* min(s) of a non-empty list
SeqMin(s) ==
    IF Len(s) = 1 THEN s[1]
    ELSE LET m == SeqMin(Tail(s)) IN IF s[1] < m THEN s[1] ELSE m

\* Python int() of the rational n / d (d > 0): truncation toward zero
IntTrunc(n, d) == IF n >= 0 THEN n \div d ELSE -((-n) \div d)

\* str.lower() on the model's alphabet
LowerChar(c) == IF c = "A" THEN "a" ELSE IF c = "B" THEN "b" ELSE c

Lower(q) == [i \in 1..Len(q) |-> LowerChar(q[i])]

RECURSIVE LStrip(_)
LStrip(q) == IF q # <<>> /\ Head(q) = " " THEN LStrip(Tail(q)) ELSE q

RECURSIVE RStrip(_)
RStrip(q) ==
    IF q # <<>> /\ q[Len(q)] = " " THEN RStrip(SubSeq(q, 1, Len(q) - 1)) ELSE q

\* str.strip()
Strip(q) == RStrip(LStrip(q))

\* a key derived from the query lower-cased but not stripped
GenerateKeyNoStrip(q) == Lower(q)

\* SimpleCache._generate_key: md5 of the normalised query; the digest is
\* modelled as injective on normalised queries
GenerateKey(q) == Strip(Lower(q))

\* ---------------------------------------------------------------- variables
VARIABLES
    now,                 \* time.time(), in units of 1/Res second
    ticks,               \* how often the clock has advanced
    rate_limit_enabled,  \* settings.rate_limit_enabled
    cache_enabled,       \* settings.cache_enabled
    requests_per_minute, \* RateLimiter.requests_per_minute
    requests,            \* RateLimiter.requests: client -> list of timestamps
    cache,               \* SimpleCache.cache: key -> <<summary, timestamp>>
    article_cache,       \* SimpleCache.article_cache: key -> <<text, timestamp>>
    ret,                 \* the call that has just returned, and its result
    retryDeadline,       \* client -> earliest now + retry_after since its last admission
    admitted,            \* client -> the current_time of each request a thread admitted
                         \*   in the minute before the latest admission
    pc,                  \* request -> where the request stands
    rq,                  \* request -> its endpoint, client and query
    loc,                 \* request -> the local variables of its running code
    loop,                \* the request whose handler occupies the event loop
    tok                  \* the token functions: their inputs and what they returned

settingsVars == <<rate_limit_enabled, cache_enabled, requests_per_minute>>

serverVars == <<pc, rq, loc, loop>>

vars == <<now, ticks, rate_limit_enabled, cache_enabled, requests_per_minute,
          requests, cache, article_cache, ret, retryDeadline, admitted,
          pc, rq, loc, loop, tok>>

\* ------------------------------------------------------------- dictionaries
DictGet(d, k) == IF k \in DOMAIN d THEN Some(d[k]) ELSE None

DictPut(d, k, v) == [x \in DOMAIN d \cup {k} |-> IF x = k THEN v ELSE d[x]]

DictDel(d, k) == [x \in DOMAIN d \ {k} |-> d[x]]

EmptyDict == [x \in {} |-> {}]

\* defaultdict(list).__getitem__: the list of k, [] when k is missing
ListOf(d, k) == IF k \in DOMAIN d THEN d[k] ELSE <<>>

\* ------------------------------------------------------------- RateLimiter
\* a cleaning that sweeps the list of every client
CleanOldRequestsAll(reqs, client_id, current_time) ==
    [k \in DOMAIN reqs \cup {client_id} |->
        SelectSeqGt(ListOf(reqs, k), current_time - Window)]

\* _clean_old_requests: keep the timestamps newer than a minute ago
CleanOldRequests(reqs, client_id, current_time) ==
    DictPut(reqs, client_id,
            SelectSeqGt(ListOf(reqs, client_id), current_time - Window))

\* a limit test that lets a full window through
LimitReachedStrict(window, limit) == Len(window) > limit

\* is_allowed: len(self.requests[client_id]) >= self.requests_per_minute
LimitReached(window, limit) == Len(window) >= limit

\* a retry hint without the added second
RetryAfterNoMargin(window, current_time) ==
    IntTrunc(Window - (current_time - SeqMin(window)), Res)

\* a retry hint that rounds the remaining time up before adding the second
RetryAfterCeil(window, current_time) ==
    -((-(Window - (current_time - SeqMin(window)))) \div Res) + 1

\* is_allowed: int(60 - (current_time - oldest_request)) + 1
RetryAfter(window, current_time) ==
    IntTrunc(Window - (current_time - SeqMin(window)), Res) + 1

\* is_allowed that records the time of a rejected call too
IsAllowedRecordRejected(enabled, limit, reqs, client_id, current_time) ==
    IF ~enabled
    THEN [allowed |-> TRUE, retry_after |-> None, requests |-> reqs]
    ELSE LET cleaned == CleanOldRequests(reqs, client_id, current_time)
             window == cleaned[client_id]
             recorded == DictPut(cleaned, client_id, Append(window, current_time))
         IN  IF LimitReached(window, limit)
             THEN [allowed |-> FALSE,
                   retry_after |-> Some(RetryAfter(window, current_time)),
                   requests |-> recorded]
             ELSE [allowed |-> TRUE, retry_after |-> None, requests |-> recorded]

\* is_allowed that looks at the setting only after touching the window
IsAllowedCleanFirst(enabled, limit, reqs, client_id, current_time) ==
    LET cleaned == CleanOldRequests(reqs, client_id, current_time) IN
    IF ~enabled
    THEN [allowed |-> TRUE, retry_after |-> None, requests |-> cleaned]
    ELSE LET window == cleaned[client_id]
         IN  IF LimitReached(window, limit)
             THEN [allowed |-> FALSE,
                   retry_after |-> Some(RetryAfter(window, current_time)),
                   requests |-> cleaned]
             ELSE [allowed |-> TRUE, retry_after |-> None,
                   requests |-> DictPut(cleaned, client_id,
                                        Append(window, current_time))]

\* is_allowed, run without interruption: its result and the new windows
IsAllowed(enabled, limit, reqs, client_id, current_time) ==
    IF ~enabled
    THEN [allowed |-> TRUE, retry_after |-> None, requests |-> reqs]
    ELSE LET cleaned == CleanOldRequests(reqs, client_id, current_time)
             window == cleaned[client_id]
         IN  IF LimitReached(window, limit)
             THEN [allowed |-> FALSE,
                   retry_after |-> Some(RetryAfter(window, current_time)),
                   requests |-> cleaned]
             ELSE [allowed |-> TRUE, retry_after |-> None,
                   requests |-> DictPut(cleaned, client_id,
                                        Append(window, current_time))]

\* reset
ResetClient(reqs, client_id) ==
    IF client_id \in DOMAIN reqs THEN DictDel(reqs, client_id) ELSE reqs

\* -------------------------------------------------------------- SimpleCache
\* a get whose hit restamps the entry, as a sliding expiration would
GetRefreshing(enabled, table, query, t) ==
    IF ~enabled THEN [val |-> None, table |-> table]
    ELSE LET key == GenerateKey(query) IN
         IF key \in DOMAIN table
         THEN IF t - table[key][2] < Ttl
              THEN [val |-> Some(table[key][1]),
                    table |-> DictPut(table, key, <<table[key][1], t>>)]
              ELSE [val |-> None, table |-> DictDel(table, key)]
         ELSE [val |-> None, table |-> table]

\* a get that, like a sweep, also drops every other expired entry
GetSweeping(enabled, table, query, t) ==
    IF ~enabled THEN [val |-> None, table |-> table]
    ELSE LET key == GenerateKey(query)
             fresh == {k \in DOMAIN table : t - table[k][2] < Ttl}
         IN  [val |-> IF key \in fresh THEN Some(table[key][1]) ELSE None,
              table |-> [k \in fresh |-> table[k]]]

\* get: the value returned and the summary table it leaves
Get(enabled, table, query, t) ==
    IF ~enabled THEN [val |-> None, table |-> table]
    ELSE LET key == GenerateKey(query) IN
         IF key \in DOMAIN table
         THEN IF t - table[key][2] < Ttl
              THEN [val |-> Some(table[key][1]), table |-> table]
              ELSE [val |-> None, table |-> DictDel(table, key)]
         ELSE [val |-> None, table |-> table]

\* a set that returns without storing
SetNoStore(enabled, table, query, summary, t) == table

\* a set that replaces the summary of an existing entry but keeps its timestamp
SetKeepStamp(enabled, table, query, summary, t) ==
    IF ~enabled THEN table
    ELSE LET key == GenerateKey(query) IN
         DictPut(table, key,
                 <<summary, IF key \in DOMAIN table THEN table[key][2] ELSE t>>)

\* set: the summary table it leaves
Set(enabled, table, query, summary, t) ==
    IF ~enabled THEN table
    ELSE DictPut(table, GenerateKey(query), <<summary, t>>)

\* get_article that still serves an entry whose age is exactly the TTL
GetArticleInclusive(enabled, table, query, t) ==
    IF ~enabled THEN [val |-> None, table |-> table]
    ELSE LET key == GenerateKey(query) IN
         IF key \in DOMAIN table
         THEN IF t - table[key][2] <= Ttl
              THEN [val |-> Some(table[key][1]), table |-> table]
              ELSE [val |-> None, table |-> DictDel(table, key)]
         ELSE [val |-> None, table |-> table]

\* get_article: the value returned and the article table it leaves
GetArticle(enabled, table, query, t) ==
    IF ~enabled THEN [val |-> None, table |-> table]
    ELSE LET key == GenerateKey(query) IN
         IF key \in DOMAIN table
         THEN IF t - table[key][2] < Ttl
              THEN [val |-> Some(table[key][1]), table |-> table]
              ELSE [val |-> None, table |-> DictDel(table, key)]
         ELSE [val |-> None, table |-> table]

\* a set_article whose entry is born expired
SetArticleStale(enabled, table, query, article_text, t) ==
    IF ~enabled THEN table
    ELSE DictPut(table, GenerateKey(query), <<article_text, t - Ttl>>)

\* set_article: the article table it leaves
SetArticle(enabled, table, query, article_text, t) ==
    IF ~enabled THEN table
    ELSE DictPut(table, GenerateKey(query), <<article_text, t>>)

\* a size that counts only the entries younger than the TTL
SizeLive(table) == Cardinality({k \in DOMAIN table : now - table[k][2] < Ttl})

\* size: len(self.cache)
Size(table) == Cardinality(DOMAIN table)

\* ------------------------------------------------------------ token budget
\* The characters of a text: "a" is a one-byte character, "X" a two-byte
\* character, "R" is U+FFFD (three bytes), and "S" stands for the text of a
\* special token of the encoding, "<|endoftext|>".
Chars == {"a", "X", "R", "S"}

\* len() of the text a character stands for
CharLen(c) == IF c = "S" THEN 13 ELSE 1

RECURSIVE TextLen(_)
\* len(text)
TextLen(text) ==
    IF text = <<>> THEN 0 ELSE CharLen(Head(text)) + TextLen(Tail(text))

\* the UTF-8 bytes of a character
Utf8(c) ==
    IF c = "a" THEN <<"a">>
    ELSE IF c = "X" THEN <<"x1", "x2">>
    ELSE <<"r1", "r2", "r3">>

RECURSIVE ToBytes(_)
\* text.encode("utf-8"), one single-byte token per byte
ToBytes(text) ==
    IF text = <<>> THEN <<>>
    ELSE [i \in 1..Len(Utf8(Head(text))) |-> <<Utf8(Head(text))[i]>>]
            \o ToBytes(Tail(text))

\* Byte-pair vocabularies as lists of merges, best rank first.  In the first
\* a token never holds a whole character together with part of another; in
\* the second the token "a" + first byte of "X" exists.
RanksPlain ==
    << << <<"r1">>, <<"r2">> >>,
       << <<"r1", "r2">>, <<"r3">> >>,
       << <<"a">>, <<"a">> >> >>

RanksCrossing ==
    << << <<"a">>, <<"x1">> >>,
       << <<"x1">>, <<"x2">> >>,
       << <<"r1">>, <<"r2">> >>,
       << <<"r1", "r2">>, <<"r3">> >> >>

\* _get_encoding: an encoding, or None when it raises ValueError
Encodings == {None, Some(RanksPlain), Some(RanksCrossing)}

\* the positions of the token list where the merge of rank i applies
MergePlaces(toks, ranks, i) ==
    {j \in 1..(Len(toks) - 1) : <<toks[j], toks[j + 1]>> = ranks[i]}

\* the best rank that applies somewhere, 0 when none does
BestRank(toks, ranks) ==
    LET cands == {i \in 1..Len(ranks) : MergePlaces(toks, ranks, i) # {}}
    IN  IF cands = {} THEN 0
        ELSE CHOOSE i \in cands : \A k \in cands : i <= k

RECURSIVE BytePairMerge(_, _)
\* byte-pair encoding: merge the best-ranked pair, leftmost first, until no
\* merge applies
BytePairMerge(toks, ranks) ==
    LET i == BestRank(toks, ranks) IN
    IF i = 0 THEN toks
    ELSE LET places == MergePlaces(toks, ranks, i)
             j == CHOOSE x \in places : \A y \in places : x <= y
         IN  BytePairMerge(SubSeq(toks, 1, j - 1)
                             \o << toks[j] \o toks[j + 1] >>
                             \o SubSeq(toks, j + 2, Len(toks)),
                           ranks)

\* encoding.encode(text): the tokens, or None when encode raises ValueError
\* because the text holds a special token
Encode(ranks, text) ==
    IF \E i \in 1..Len(text) : text[i] = "S" THEN None
    ELSE Some(BytePairMerge(ToBytes(text), ranks))

RECURSIVE Flatten(_)
Flatten(toks) == IF toks = <<>> THEN <<>> ELSE Head(toks) \o Flatten(Tail(toks))

RECURSIVE DecodeBytes(_)
\* bytes.decode("utf-8", errors="replace"): every ill-formed run becomes U+FFFD
DecodeBytes(bs) ==
    IF bs = <<>> THEN <<>>
    ELSE IF bs[1] = "a" THEN <<"a">> \o DecodeBytes(Tail(bs))
    ELSE IF bs[1] = "x1" /\ Len(bs) >= 2 /\ bs[2] = "x2"
         THEN <<"X">> \o DecodeBytes(SubSeq(bs, 3, Len(bs)))
    ELSE IF bs[1] = "r1" /\ Len(bs) >= 2 /\ bs[2] = "r2"
         THEN <<"R">> \o DecodeBytes(SubSeq(bs, IF Len(bs) >= 3 /\ bs[3] = "r3"
                                                THEN 4 ELSE 3, Len(bs)))
    ELSE <<"R">> \o DecodeBytes(Tail(bs))

\* encoding.decode(tokens)
Decode(toks) == DecodeBytes(Flatten(toks))

\* count_tokens: len(encoding.encode(text)), len(text) // 4 on any exception
CountTokens(encoding, text) ==
    IF encoding = None \/ Encode(encoding[1], text) = None
    THEN TextLen(text) \div 4
    ELSE Len(Encode(encoding[1], text)[1])

\* truncate_to_tokens: the text returned, or None when _get_encoding or
\* encode raises (the function catches nothing)
TruncateToTokens(encoding, text, max_tokens) ==
    IF encoding = None \/ Encode(encoding[1], text) = None THEN None
    ELSE LET tokens == Encode(encoding[1], text)[1] IN
         IF Len(tokens) <= max_tokens THEN Some(text)
         ELSE Some(Decode(SubSeq(tokens, 1, max_tokens)))

\* ------------------------------------------------------------ server state
NReq == 2
Reqs == 1..NReq

NoRequest == [kind |-> "none", client |-> "c1", query |-> <<>>]

\* the locals that later steps read (t: current_time, lst: the cleaned list,
\* cached: what the first cache lookup returned, url: article_url, retry:
\* retry_after), and a log of what the request did: is_allowed's verdict,
\* the number of calls of fetch_wikipedia_article, of summarize_article or
\* answer_question (generations) and of cache methods, what the last fetch returned (res) and whether the last
\* generation returned something usable
NoLocals == [t |-> 0, lst |-> <<>>, cached |-> None, url |-> None,
             retry |-> None, admit |-> "none",
             fetches |-> 0, res |-> <<None, None>>,
             generations |-> 0, generated |-> FALSE, cache_calls |-> 0]

NoCall == [op |-> "none", arg |-> <<>>, at |-> 0, before |-> None, val |-> None]

\* no call of the token functions yet
NoTokens == [encoding |-> None, text |-> <<>>, max_tokens |-> 0, calls |-> 0,
             first |-> None, out |-> None]

\* ------------------------------------------------------------------- Init
\* module import: settings read once, empty cache and limiter, no request
Init ==
    /\ now = 0
    /\ ticks = 0
    /\ rate_limit_enabled \in BOOLEAN
    /\ cache_enabled \in BOOLEAN
    /\ requests_per_minute \in 1..MaxLimit
    /\ requests = EmptyDict
    /\ cache = EmptyDict
    /\ article_cache = EmptyDict
    /\ ret = NoCall
    /\ retryDeadline = [c \in Clients |-> None]
    /\ pc = [r \in Reqs |-> "idle"]
    /\ rq = [r \in Reqs |-> NoRequest]
    /\ loc = [r \in Reqs |-> NoLocals]
    /\ admitted = [c \in Clients |-> <<>>]
    /\ loop = None
    /\ tok = NoTokens

\* time passes
Tick ==
    /\ ticks < MaxTicks
    /\ \E d \in TickSteps : now' = now + d
    /\ ticks' = ticks + 1
    /\ ret' = NoCall
    /\ UNCHANGED <<settingsVars, tok, requests, cache, article_cache,
                   retryDeadline, admitted, serverVars>>

\* ------------------------------------------- the limiter, called directly
MinOpt(o, x) == IF o = None \/ x < o[1] THEN Some(x) ELSE o

\* rate_limiter.is_allowed(c), from a single caller
Admit(c) ==
    LET r == IsAllowed(rate_limit_enabled, requests_per_minute, requests, c, now) IN
    /\ requests' = r.requests
    /\ ret' = [op |-> "is_allowed", arg |-> c, at |-> now,
               before |-> <<DictGet(requests, c), retryDeadline[c]>>,
               val |-> <<r.allowed, r.retry_after>>]
    /\ retryDeadline' =
         [retryDeadline EXCEPT ![c] =
            IF r.allowed THEN None
            ELSE MinOpt(retryDeadline[c], now + r.retry_after[1] * Res)]
    /\ UNCHANGED <<now, ticks, settingsVars, tok, cache, article_cache, admitted,
                   serverVars>>

\* rate_limiter.reset(c)
Reset(c) ==
    /\ requests' = ResetClient(requests, c)
    /\ ret' = NoCall
    /\ UNCHANGED <<now, ticks, settingsVars, tok, cache, article_cache,
                   retryDeadline, admitted, serverVars>>

NextLimiter ==
    \/ \E c \in Clients : Admit(c)
    \/ \E c \in Clients : Reset(c)
    \/ Tick

\* the limiter alone: the cache settings play no part
InitLimiter == Init /\ cache_enabled

SpecLimiter == InitLimiter /\ [][NextLimiter]_vars

\* --------------------------------------------- the cache, called directly
\* cache.get(q)
GetCall(q) ==
    LET g == Get(cache_enabled, cache, q, now) IN
    /\ cache' = g.table
    /\ ret' = [op |-> "get", arg |-> q, at |-> now,
               before |-> DictGet(cache, GenerateKey(q)), val |-> g.val]
    /\ UNCHANGED <<now, ticks, settingsVars, tok, requests, article_cache,
                   retryDeadline, admitted, serverVars>>

\* cache.set(q, v)
SetCall(q, v) ==
    /\ cache' = Set(cache_enabled, cache, q, v, now)
    /\ ret' = [op |-> "set", arg |-> q, at |-> now, before |-> None,
               val |-> Some(v)]
    /\ UNCHANGED <<now, ticks, settingsVars, tok, requests, article_cache,
                   retryDeadline, admitted, serverVars>>

\* cache.get_article(q)
GetArticleCall(q) ==
    LET g == GetArticle(cache_enabled, article_cache, q, now) IN
    /\ article_cache' = g.table
    /\ ret' = [op |-> "get_article", arg |-> q, at |-> now,
               before |-> DictGet(article_cache, GenerateKey(q)), val |-> g.val]
    /\ UNCHANGED <<now, ticks, settingsVars, tok, requests, cache,
                   retryDeadline, admitted, serverVars>>

\* cache.set_article(q, v)
SetArticleCall(q, v) ==
    /\ article_cache' = SetArticle(cache_enabled, article_cache, q, v, now)
    /\ ret' = [op |-> "set_article", arg |-> q, at |-> now, before |-> None,
               val |-> Some(v)]
    /\ UNCHANGED <<now, ticks, settingsVars, tok, requests, cache,
                   retryDeadline, admitted, serverVars>>

\* cache.clear()
ClearCall ==
    /\ cache' = EmptyDict
    /\ article_cache' = EmptyDict
    /\ ret' = NoCall
    /\ UNCHANGED <<now, ticks, settingsVars, tok, requests, retryDeadline, admitted, serverVars>>

\* cache.size()
SizeCall ==
    /\ ret' = [op |-> "size", arg |-> <<>>, at |-> now, before |-> None,
               val |-> Some(Size(cache))]
    /\ UNCHANGED <<now, ticks, settingsVars, tok, requests, cache, article_cache,
                   retryDeadline, admitted, serverVars>>

NextCache ==
    \/ \E q \in Queries : GetCall(q)
    \/ \E q \in Queries, v \in Summaries : SetCall(q, v)
    \/ \E q \in Queries : GetArticleCall(q)
    \/ \E q \in Queries, v \in Texts : SetArticleCall(q, v)
    \/ ClearCall
    \/ SizeCall
    \/ Tick

\* the cache alone: the limiter settings play no part
InitCache == Init /\ rate_limit_enabled /\ requests_per_minute = 1

SpecCache == InitCache /\ [][NextCache]_vars

\* ------------------------------------- the token functions, called directly
RECURSIVE TextsUpTo(_)
TextsUpTo(n) ==
    IF n = 0 THEN {<<>>}
    ELSE LET shorter == TextsUpTo(n - 1)
         IN  shorter \cup {Append(t, c) : t \in shorter, c \in Chars}

\* truncate_to_tokens(text, max_tokens)
TruncateCall ==
    /\ tok.calls = 0
    /\ LET out == TruncateToTokens(tok.encoding, tok.text, tok.max_tokens)
       IN  tok' = [tok EXCEPT !.calls = 1, !.first = out, !.out = out]
    /\ UNCHANGED <<now, ticks, settingsVars, requests, cache, article_cache,
                   ret, retryDeadline, admitted, serverVars>>

\* truncate_to_tokens(t, max_tokens) for the t that the first call returned
TruncateAgainCall ==
    /\ tok.calls = 1
    /\ tok.out # None
    /\ tok' = [tok EXCEPT
                 !.calls = 2,
                 !.out = TruncateToTokens(tok.encoding, tok.out[1], tok.max_tokens)]
    /\ UNCHANGED <<now, ticks, settingsVars, requests, cache, article_cache,
                   ret, retryDeadline, admitted, serverVars>>

NextTokens ==
    \/ TruncateCall
    \/ TruncateAgainCall

\* the token functions alone, on every text, budget and encoding tried
InitTokens ==
    /\ now = 0
    /\ ticks = 0
    /\ rate_limit_enabled = TRUE
    /\ cache_enabled = TRUE
    /\ requests_per_minute = 1
    /\ requests = EmptyDict
    /\ cache = EmptyDict
    /\ article_cache = EmptyDict
    /\ ret = NoCall
    /\ retryDeadline = [c \in Clients |-> None]
    /\ pc = [r \in Reqs |-> "idle"]
    /\ rq = [r \in Reqs |-> NoRequest]
    /\ loc = [r \in Reqs |-> NoLocals]
    /\ admitted = [c \in Clients |-> <<>>]
    /\ loop = None
    /\ \E e \in Encodings, t \in TextsUpTo(MaxLen), n \in 0..MaxBudget :
          tok = [NoTokens EXCEPT !.encoding = e, !.text = t, !.max_tokens = n]

SpecTokens == InitTokens /\ [][NextTokens]_vars

\* -------------------------------------------------------------- the server
Kinds == {"summarize", "chat"}

\* the clients and queries of the requests sent to the server
ServerClients == {"c1"}

ServerQueries == {<<"a", " ">>}

\* fetch_wikipedia_article: (None, None), or a text (possibly empty) and a URL
FetchResults ==
    {<<None, None>>} \cup {<<Some(t), Some(u)>> : t \in Texts \cup {""}, u \in Urls}

\* truncate_to_tokens raised inside summarize_article / answer_question
Raised == <<"raised", "ValueError">>

\* summarize_article / answer_question: None on an exception of the model
\* call, else the stripped completion, possibly empty; or the exception of
\* truncate_to_tokens, which they do not catch
LLMResults == {None, Some(""), Raised} \cup {Some(s) : s \in Summaries}

\* exceptions.py: the exceptions as (status_code, detail, headers)
RateLimitError(retry_after) ==
    [status_code |-> HTTP_429, detail |-> "Rate limit exceeded",
     headers |-> Some(retry_after)]

ArticleNotFoundError ==
    [status_code |-> HTTP_404, detail |-> "Could not find Wikipedia article",
     headers |-> None]

SummarizationError ==
    [status_code |-> HTTP_500, detail |-> "Failed to generate",
     headers |-> None]

\* custom_exception_handler: JSONResponse(status_code=..., content=...)
CustomExceptionHandler(exc) ==
    [status |-> exc.status_code, body |-> Some(exc.detail), url |-> None,
     headers |-> None]

\* an exception no handler is registered for: the server's plain 500
InternalServerError ==
    [status |-> HTTP_500, body |-> Some("Internal Server Error"), url |-> None,
     headers |-> None]

\* check_rate_limit: retry_after or 60
RetryAfterOrDefault(retry) ==
    IF retry = None \/ retry[1] = 0 THEN DefaultRetryAfter ELSE retry[1]

\* SummarizeResponse / ChatResponse
OkResponse(body, url) ==
    [status |-> HTTP_200, body |-> Some(body), url |-> url, headers |-> None]

Client(r) == rq[r].client

\* query = request.query.strip()
Query(r) == Strip(rq[r].query)

\* the response goes out: the request is over, and ret shows it with what
\* the request did
Complete(r, response, log) ==
    /\ ret' = [op |-> rq[r].kind, arg |-> <<Client(r), Query(r)>>, at |-> now,
               before |-> log, val |-> response]
    /\ pc' = [pc EXCEPT ![r] = "closed"]
    /\ rq' = [rq EXCEPT ![r] = NoRequest]
    /\ loc' = [loc EXCEPT ![r] = NoLocals]

\* a request reaches the server socket
Arrive(r, kind, c, q) ==
    /\ pc[r] = "idle"
    /\ IF r = 1 THEN TRUE ELSE pc[r - 1] # "idle"
    /\ pc' = [pc EXCEPT ![r] = "queued"]
    /\ rq' = [rq EXCEPT ![r] = [kind |-> kind, client |-> c, query |-> q]]
    /\ ret' = NoCall
    /\ UNCHANGED <<now, ticks, settingsVars, tok, requests, cache, article_cache,
                   retryDeadline, admitted, loc, loop>>

\* the event loop takes the request and hands check_rate_limit, a plain
\* function, to the thread pool
Dispatch(r) ==
    /\ pc[r] = "queued"
    /\ loop = None
    /\ pc' = [pc EXCEPT ![r] = "rl_enter"]
    /\ ret' = NoCall
    /\ UNCHANGED <<now, ticks, settingsVars, tok, requests, cache, article_cache,
                   retryDeadline, admitted, rq, loc, loop>>

\* is_allowed in a pool thread: the setting, then current_time = time.time()
RLEnter(r) ==
    /\ pc[r] = "rl_enter"
    /\ IF ~rate_limit_enabled
       THEN /\ pc' = [pc EXCEPT ![r] = "ready"]
            /\ loc' = [loc EXCEPT ![r].admit = "allowed"]
       ELSE /\ pc' = [pc EXCEPT ![r] = "rl_clean"]
            /\ loc' = [loc EXCEPT ![r].t = now]
    /\ ret' = NoCall
    /\ UNCHANGED <<now, ticks, settingsVars, tok, requests, cache, article_cache,
                   retryDeadline, admitted, rq, loop>>

\* _clean_old_requests: the comprehension reads the client's list
RLCleanRead(r) ==
    /\ pc[r] = "rl_clean"
    /\ loc' = [loc EXCEPT ![r].lst =
                 CleanOldRequests(requests, Client(r), loc[r].t)[Client(r)]]
    /\ requests' = DictPut(requests, Client(r), ListOf(requests, Client(r)))
    /\ pc' = [pc EXCEPT ![r] = "rl_store"]
    /\ ret' = NoCall
    /\ UNCHANGED <<now, ticks, settingsVars, tok, cache, article_cache,
                   retryDeadline, admitted, rq, loop>>

\* _clean_old_requests: the new list replaces the client's list
RLCleanStore(r) ==
    /\ pc[r] = "rl_store"
    /\ requests' = DictPut(requests, Client(r), loc[r].lst)
    /\ loc' = [loc EXCEPT ![r].lst = <<>>]
    /\ pc' = [pc EXCEPT ![r] = "rl_check"]
    /\ ret' = NoCall
    /\ UNCHANGED <<now, ticks, settingsVars, tok, cache, article_cache,
                   retryDeadline, admitted, rq, loop>>

\* is_allowed: the test of the window's length and, when the limit is
\* reached, min() of the window and the retry hint (read in one step)
RLCheck(r) ==
    /\ pc[r] = "rl_check"
    /\ IF LimitReached(ListOf(requests, Client(r)), requests_per_minute)
       THEN /\ pc' = [pc EXCEPT ![r] = "rejected"]
            /\ loc' = [loc EXCEPT
                 ![r].admit = "rejected",
                 ![r].retry = Some(RetryAfter(requests[Client(r)], loc[r].t))]
       ELSE /\ pc' = [pc EXCEPT ![r] = "rl_append"]
            /\ UNCHANGED loc
    /\ ret' = NoCall
    /\ UNCHANGED <<now, ticks, settingsVars, tok, requests, cache, article_cache,
                   retryDeadline, admitted, rq, loop>>

\* is_allowed: self.requests[client_id].append(current_time)
RLAppend(r) ==
    /\ pc[r] = "rl_append"
    /\ requests' = DictPut(requests, Client(r),
                           Append(ListOf(requests, Client(r)), loc[r].t))
    /\ admitted' = [admitted EXCEPT ![Client(r)] =
                       Append(SelectSeqGt(@, loc[r].t - Window), loc[r].t)]
    /\ loc' = [loc EXCEPT ![r].admit = "allowed"]
    /\ pc' = [pc EXCEPT ![r] = "ready"]
    /\ ret' = NoCall
    /\ UNCHANGED <<now, ticks, settingsVars, tok, cache, article_cache,
                   retryDeadline, rq, loop>>

\* check_rate_limit raises RateLimitError; the event loop runs the handler
\* registered for it
RespondRateLimited(r) ==
    /\ pc[r] = "rejected"
    /\ loop = None
    /\ Complete(r,
         CustomExceptionHandler(RateLimitError(RetryAfterOrDefault(loc[r].retry))),
         loc[r])
    /\ UNCHANGED <<now, ticks, settingsVars, tok, requests, cache, article_cache,
                   retryDeadline, admitted, loop>>

\* a handler that runs although check_rate_limit raised
DependsIgnored(r) == pc[r] \in {"ready", "rejected"}

\* Depends(check_rate_limit): the handler runs once the dependency returned
DependsPassed(r) == pc[r] = "ready"

\* summarize_wikipedia starts on the event loop: cache.get(query), then the
\* call of fetch_wikipedia_article, which the handler waits for in place
SummarizeStart(r) ==
    /\ DependsPassed(r)
    /\ rq[r].kind = "summarize"
    /\ loop = None
    /\ LET g == Get(cache_enabled, cache, Query(r), now) IN
       /\ cache' = g.table
       /\ pc' = [pc EXCEPT ![r] = IF Truthy(g.val) THEN "hit_fetch" ELSE "miss_fetch"]
       /\ loc' = [loc EXCEPT ![r].cached = g.val, ![r].cache_calls = @ + 1]
    /\ loop' = Some(r)
    /\ ret' = NoCall
    /\ UNCHANGED <<now, ticks, settingsVars, tok, requests, article_cache,
                   retryDeadline, admitted, rq>>

\* summarize_wikipedia, cached summary: the fetch returns
HitFetchReturn(r, res) ==
    /\ pc[r] = "hit_fetch"
    /\ IF Truthy(res[2])
       THEN LET ga == GetArticle(cache_enabled, article_cache, Query(r), now) IN
            /\ article_cache' =
                 IF ~Truthy(ga.val)
                 THEN SetArticle(cache_enabled, ga.table, Query(r), res[1][1], now)
                 ELSE ga.table
            /\ Complete(r, OkResponse(loc[r].cached[1], res[2]),
                 [loc[r] EXCEPT !.fetches = @ + 1, !.res = res,
                     !.cache_calls = @ + (IF ~Truthy(ga.val) THEN 2 ELSE 1)])
            /\ loop' = None
       ELSE /\ pc' = [pc EXCEPT ![r] = "miss_fetch"]
            /\ loc' = [loc EXCEPT ![r].fetches = @ + 1, ![r].res = res]
            /\ ret' = NoCall
            /\ UNCHANGED <<article_cache, rq, loop>>
    /\ UNCHANGED <<now, ticks, settingsVars, tok, requests, cache, retryDeadline,
                   admitted>>

\* a test that looks at the URL only
NoArticleUrlOnly(res) == ~Truthy(res[2])

\* summarize_wikipedia: not article_text or not article_url
NoArticle(res) == ~Truthy(res[1]) \/ ~Truthy(res[2])

\* summarize_wikipedia, no usable cached summary: the fetch returns
MissFetchReturn(r, res) ==
    /\ pc[r] = "miss_fetch"
    /\ IF NoArticle(res)
       THEN /\ Complete(r, CustomExceptionHandler(ArticleNotFoundError),
                 [loc[r] EXCEPT !.fetches = @ + 1, !.res = res])
            /\ loop' = None
            /\ UNCHANGED article_cache
       ELSE /\ article_cache' =
                 SetArticle(cache_enabled, article_cache, Query(r), res[1][1], now)
            /\ loc' = [loc EXCEPT ![r].fetches = @ + 1, ![r].res = res,
                                  ![r].url = res[2], ![r].cache_calls = @ + 1]
            /\ pc' = [pc EXCEPT ![r] = "llm"]
            /\ ret' = NoCall
            /\ UNCHANGED <<rq, loop>>
    /\ UNCHANGED <<now, ticks, settingsVars, tok, requests, cache, retryDeadline,
                   admitted>>

\* a summarize_wikipedia that stores the completion before it tests it
LLMReturnStoreFirst(r, out) ==
    /\ pc[r] = "llm"
    /\ IF out = Raised
       THEN /\ Complete(r, InternalServerError,
                 [loc[r] EXCEPT !.generations = @ + 1])
            /\ UNCHANGED cache
       ELSE IF out = None
       THEN /\ Complete(r, CustomExceptionHandler(SummarizationError),
                 [loc[r] EXCEPT !.generations = @ + 1])
            /\ UNCHANGED cache
       ELSE /\ cache' = Set(cache_enabled, cache, Query(r), out[1], now)
            /\ IF ~Truthy(out)
               THEN Complete(r, CustomExceptionHandler(SummarizationError),
                        [loc[r] EXCEPT !.generations = @ + 1,
                                       !.cache_calls = @ + 1])
               ELSE Complete(r, OkResponse(out[1], loc[r].url),
                        [loc[r] EXCEPT !.generations = @ + 1, !.generated = TRUE,
                                       !.cache_calls = @ + 1])
    /\ loop' = None
    /\ UNCHANGED <<now, ticks, settingsVars, tok, requests, article_cache,
                   retryDeadline, admitted>>

\* summarize_wikipedia: summarize_article returns
LLMReturn(r, out) ==
    /\ pc[r] = "llm"
    /\ IF out = Raised
       THEN /\ Complete(r, InternalServerError,
                 [loc[r] EXCEPT !.generations = @ + 1])
            /\ UNCHANGED cache
       ELSE IF ~Truthy(out)
       THEN /\ Complete(r, CustomExceptionHandler(SummarizationError),
                 [loc[r] EXCEPT !.generations = @ + 1])
            /\ UNCHANGED cache
       ELSE /\ cache' = Set(cache_enabled, cache, Query(r), out[1], now)
            /\ Complete(r, OkResponse(out[1], loc[r].url),
                 [loc[r] EXCEPT !.generations = @ + 1, !.generated = TRUE,
                                !.cache_calls = @ + 1])
    /\ loop' = None
    /\ UNCHANGED <<now, ticks, settingsVars, tok, requests, article_cache,
                   retryDeadline, admitted>>

\* chat_about_article starts on the event loop: cache.get_article(query)
ChatStart(r) ==
    /\ DependsPassed(r)
    /\ rq[r].kind = "chat"
    /\ loop = None
    /\ LET ga == GetArticle(cache_enabled, article_cache, Query(r), now) IN
       /\ article_cache' = ga.table
       /\ pc' = [pc EXCEPT ![r] = IF Truthy(ga.val) THEN "chat_llm" ELSE "chat_fetch"]
       /\ loc' = [loc EXCEPT ![r].cached = ga.val, ![r].cache_calls = @ + 1]
    /\ loop' = Some(r)
    /\ ret' = NoCall
    /\ UNCHANGED <<now, ticks, settingsVars, tok, requests, cache, retryDeadline,
                   admitted, rq>>

\* chat_about_article: the fetch returns
ChatFetchReturn(r, res) ==
    /\ pc[r] = "chat_fetch"
    /\ IF ~Truthy(res[1])
       THEN /\ Complete(r, CustomExceptionHandler(ArticleNotFoundError),
                 [loc[r] EXCEPT !.fetches = @ + 1, !.res = res])
            /\ loop' = None
            /\ UNCHANGED article_cache
       ELSE /\ article_cache' =
                 SetArticle(cache_enabled, article_cache, Query(r), res[1][1], now)
            /\ loc' = [loc EXCEPT ![r].fetches = @ + 1, ![r].res = res,
                                  ![r].cache_calls = @ + 1]
            /\ pc' = [pc EXCEPT ![r] = "chat_llm"]
            /\ ret' = NoCall
            /\ UNCHANGED <<rq, loop>>
    /\ UNCHANGED <<now, ticks, settingsVars, tok, requests, cache, retryDeadline,
                   admitted>>

\* a chat_about_article that stores its answer in the summary cache
ChatLLMReturnCaching(r, out) ==
    /\ pc[r] = "chat_llm"
    /\ IF out = Raised \/ ~Truthy(out)
       THEN /\ Complete(r, CustomExceptionHandler(SummarizationError),
                 [loc[r] EXCEPT !.generations = @ + 1])
            /\ UNCHANGED cache
       ELSE /\ Complete(r, OkResponse(out[1], None),
                 [loc[r] EXCEPT !.generations = @ + 1, !.generated = TRUE])
            /\ cache' = Set(cache_enabled, cache, Query(r), out[1], now)
    /\ loop' = None
    /\ UNCHANGED <<now, ticks, settingsVars, tok, requests, article_cache,
                   retryDeadline, admitted>>

\* chat_about_article: answer_question returns
ChatLLMReturn(r, out) ==
    /\ pc[r] = "chat_llm"
    /\ IF out = Raised
       THEN Complete(r, InternalServerError,
                [loc[r] EXCEPT !.generations = @ + 1])
       ELSE IF ~Truthy(out)
       THEN Complete(r, CustomExceptionHandler(SummarizationError),
                [loc[r] EXCEPT !.generations = @ + 1])
       ELSE Complete(r, OkResponse(out[1], None),
                [loc[r] EXCEPT !.generations = @ + 1, !.generated = TRUE])
    /\ loop' = None
    /\ UNCHANGED <<now, ticks, settingsVars, tok, requests, cache, article_cache,
                   retryDeadline, admitted>>

\* GET /health
HealthCheck ==
    /\ loop = None
    /\ ret' = [op |-> "health", arg |-> <<>>, at |-> now, before |-> None,
               val |-> Some(Size(cache))]
    /\ UNCHANGED <<now, ticks, settingsVars, tok, requests, cache, article_cache,
                   retryDeadline, admitted, serverVars>>

\* GET /cache/stats
CacheStats ==
    /\ loop = None
    /\ ret' = [op |-> "cache_stats", arg |-> <<>>, at |-> now, before |-> None,
               val |-> Some(Size(cache))]
    /\ UNCHANGED <<now, ticks, settingsVars, tok, requests, cache, article_cache,
                   retryDeadline, admitted, serverVars>>

\* DELETE /cache/clear
ClearCache ==
    /\ loop = None
    /\ cache' = EmptyDict
    /\ article_cache' = EmptyDict
    /\ ret' = NoCall
    /\ UNCHANGED <<now, ticks, settingsVars, tok, requests, retryDeadline, admitted,
                   serverVars>>

Next ==
    \/ \E r \in Reqs, kind \in Kinds, c \in ServerClients, q \in ServerQueries :
          Arrive(r, kind, c, q)
    \/ \E r \in Reqs : Dispatch(r)
    \/ \E r \in Reqs : RLEnter(r)
    \/ \E r \in Reqs : RLCleanRead(r)
    \/ \E r \in Reqs : RLCleanStore(r)
    \/ \E r \in Reqs : RLCheck(r)
    \/ \E r \in Reqs : RLAppend(r)
    \/ \E r \in Reqs : RespondRateLimited(r)
    \/ \E r \in Reqs : SummarizeStart(r)
    \/ \E r \in Reqs, res \in FetchResults : HitFetchReturn(r, res)
    \/ \E r \in Reqs, res \in FetchResults : MissFetchReturn(r, res)
    \/ \E r \in Reqs, out \in LLMResults : LLMReturn(r, out)
    \/ \E r \in Reqs : ChatStart(r)
    \/ \E r \in Reqs, res \in FetchResults : ChatFetchReturn(r, res)
    \/ \E r \in Reqs, out \in LLMResults : ChatLLMReturn(r, out)
    \/ HealthCheck
    \/ CacheStats
    \/ ClearCache
    \/ Tick

Spec == Init /\ [][Next]_vars

\* ------------------------------------------- the server, one request at a time
\* a request reaches the server when the one before it has been answered
ArriveSerial(kind, c, q) ==
    /\ pc[1] \in {"idle", "closed"}
    /\ pc' = [pc EXCEPT ![1] = "queued"]
    /\ rq' = [rq EXCEPT ![1] = [kind |-> kind, client |-> c, query |-> q]]
    /\ ret' = NoCall
    /\ UNCHANGED <<now, ticks, settingsVars, tok, requests, cache, article_cache,
                   retryDeadline, admitted, loc, loop>>

NextSerial ==
    \/ \E kind \in Kinds, c \in ServerClients, q \in ServerQueries :
          ArriveSerial(kind, c, q)
    \/ Dispatch(1)
    \/ RLEnter(1)
    \/ RLCleanRead(1)
    \/ RLCleanStore(1)
    \/ RLCheck(1)
    \/ RLAppend(1)
    \/ RespondRateLimited(1)
    \/ SummarizeStart(1)
    \/ \E res \in FetchResults : HitFetchReturn(1, res)
    \/ \E res \in FetchResults : MissFetchReturn(1, res)
    \/ \E out \in LLMResults : LLMReturn(1, out)
    \/ ChatStart(1)
    \/ \E res \in FetchResults : ChatFetchReturn(1, res)
    \/ \E out \in LLMResults : ChatLLMReturn(1, out)
    \/ HealthCheck
    \/ CacheStats
    \/ ClearCache
    \/ Tick

SpecSerial == Init /\ [][NextSerial]_vars

\* ------------------------------------------------------------------ claims
RetAllowed == ret.val[1]

RetRetry == ret.val[2]

\* the window of the called client before the call, [] when it had none
WindowBefore == IF ret.before[1] = None THEN <<>> ELSE ret.before[1][1]

\* how many of its timestamps were less than 60 seconds old at the call
LiveBefore ==
    Cardinality({i \in 1..Len(WindowBefore) : WindowBefore[i] > ret.at - Window})

\* C1: with caching enabled, get and get_article return the stored value
\* exactly when an entry exists and is younger than the TTL; an entry whose
\* age is exactly the TTL is expired and the call returns None.
C1_GetIffFresh ==
    (cache_enabled /\ ret.op \in {"get", "get_article"}) =>
        IF ret.before # None /\ ret.at - ret.before[1][2] < Ttl
        THEN ret.val = Some(ret.before[1][1])
        ELSE ret.val = None

C1_Witness ==
    /\ cache_enabled
    /\ ret.op = "get_article"
    /\ ret.before # None
    /\ ret.at - ret.before[1][2] = Ttl
    /\ ret.val = None

\* C2: with limiting enabled, a call is admitted when the client's window
\* holds fewer than the limit of timestamps less than 60 seconds old, and
\* rejected when it holds that many, with 0 < retry_after <= 61.
C2_AdmitBelowLimit ==
    (rate_limit_enabled /\ ret.op = "is_allowed") =>
        /\ LiveBefore < requests_per_minute =>
              RetAllowed /\ RetRetry = None
        /\ LiveBefore >= requests_per_minute =>
              /\ ~RetAllowed
              /\ RetRetry # None
              /\ 0 < RetRetry[1]
              /\ RetRetry[1] <= WindowSeconds + 1

C2_Witness ==
    /\ rate_limit_enabled
    /\ requests_per_minute = 2
    /\ ret.op = "is_allowed"
    /\ ~RetAllowed
    /\ Len(WindowBefore) = 2
    /\ LiveBefore = 2

\* C3: once a client was rejected at time t with retry_after r and was not
\* admitted since, a call at any time >= t + r is admitted.
C3_AdmittedAfterRetry ==
    (ret.op = "is_allowed" /\ ret.before[2] # None /\ ret.at >= ret.before[2][1])
        => RetAllowed

C3_Witness ==
    /\ ret.op = "is_allowed"
    /\ ret.before[2] # None
    /\ ret.at >= ret.before[2][1]
    /\ RetAllowed

\* C10: with limiting disabled, is_allowed returns (True, None) and leaves
\* the map of windows as it was.
C10_DisabledAdmitsUnchanged ==
    [][\A c \in Clients :
         (~rate_limit_enabled /\ Admit(c)) =>
             /\ ret'.val = <<TRUE, None>>
             /\ requests' = requests]_vars

C10_Witness ==
    /\ ~rate_limit_enabled
    /\ ret.op = "is_allowed"
    /\ ret.val = <<TRUE, None>>
    /\ DOMAIN requests = {}

\* what a lookup of q in the table that the last set/set_article wrote
\* returns now
LookupAfterSet(q) ==
    IF ret.op = "set" THEN Get(cache_enabled, cache, q, now).val
    ELSE GetArticle(cache_enabled, article_cache, q, now).val

\* C11: with caching enabled, right after set(k, v) (no time passed, nothing
\* cleared) get(k) returns v, and right after set_article(k, v)
\* get_article(k) returns v.
C11_SetThenGet ==
    (cache_enabled /\ ret.op \in {"set", "set_article"}) =>
        /\ now = ret.at
        /\ LookupAfterSet(ret.arg) = ret.val

C11_Witness ==
    /\ cache_enabled
    /\ ret.op = "set_article"
    /\ now > 0
    /\ GetArticle(cache_enabled, article_cache, ret.arg, now).val = ret.val
    /\ Cardinality(DOMAIN article_cache) = 2

\* q and p differ only in letter case and in leading or trailing spaces
RECURSIVE TrimLeft(_)
TrimLeft(q) == IF q # <<>> /\ q[1] = " " THEN TrimLeft(Tail(q)) ELSE q

RECURSIVE TrimRight(_)
TrimRight(q) ==
    IF q # <<>> /\ q[Len(q)] = " "
    THEN TrimRight(SubSeq(q, 1, Len(q) - 1)) ELSE q

SameLetter(c, d) ==
    \/ c = d
    \/ {c, d} = {"a", "A"}
    \/ {c, d} = {"b", "B"}

SameUpToCaseAndSpace(q, p) ==
    LET a == TrimRight(TrimLeft(q))
        b == TrimRight(TrimLeft(p))
    IN  /\ Len(a) = Len(b)
        /\ \A i \in 1..Len(a) : SameLetter(a[i], b[i])

\* C12: a value stored under a query is returned by a lookup under every
\* query that differs from it only in letter case or in leading or trailing
\* whitespace, in the summary table and in the article table.
C12_VariantsShareEntry ==
    (cache_enabled /\ ret.op \in {"set", "set_article"}) =>
        \A p \in Queries :
            SameUpToCaseAndSpace(ret.arg, p) => LookupAfterSet(p) = ret.val

C12_Witness ==
    /\ cache_enabled
    /\ ret.op = "set"
    /\ ret.arg = <<"a", " ">>
    /\ Get(cache_enabled, cache, <<"A">>, now).val = ret.val
    /\ DOMAIN cache = {<<"a">>}

\* C13: truncate_to_tokens returns the text unchanged whenever
\* count_tokens(text) <= max_tokens, and applying it to its own result with
\* the same budget returns that result again.
C13_TruncationIdempotent ==
    /\ (tok.calls >= 1
          /\ CountTokens(tok.encoding, tok.text) <= tok.max_tokens)
         => tok.first = Some(tok.text)
    /\ tok.calls = 2 => tok.out = tok.first

\* ------------------------------------------------- claims on the server
\* ret shows a request of /summarize or /chat that has just been answered
Answered == ret.op \in Kinds

Log == ret.before

Response == ret.val

AnsweredKey == GenerateKey(ret.arg[2])

\* the fetch whose result the log holds returned a text and a URL
FetchedArticle(log) == Truthy(log.res[1]) /\ Truthy(log.res[2])

\* C4: with caching enabled, a successful /summarize leaves its summary in
\* the cache under the query's key, stamped with the time of the write; and
\* a /summarize that finds a live summary and whose fetch returns a text and
\* a URL answers 200 with that stored summary without calling the language
\* model.
C4_SecondSummarizeServedFromCache ==
    (cache_enabled /\ Answered /\ ret.op = "summarize") =>
        /\ (Response.status = HTTP_200 /\ Log.generations > 0) =>
              DictGet(cache, AnsweredKey) = Some(<<Response.body[1], ret.at>>)
        /\ (Truthy(Log.cached) /\ Log.fetches = 1 /\ FetchedArticle(Log)) =>
              /\ Response.status = HTTP_200
              /\ Response.body = Log.cached
              /\ Log.generations = 0
              /\ AnsweredKey \in DOMAIN cache
              /\ cache[AnsweredKey][1] = Response.body[1]

C4_Witness ==
    /\ cache_enabled
    /\ Answered
    /\ ret.op = "summarize"
    /\ Truthy(Log.cached)
    /\ FetchedArticle(Log)
    /\ Response.status = HTTP_200
    /\ Response.body = Log.cached
    /\ Log.generations = 0
    /\ ret.at - cache[AnsweredKey][2] = Ttl - 1

\* C5: a request that is_allowed rejects is answered 429 and does nothing
\* else: it calls no cache method, no fetch and no language model; and
\* every request that did any of these had been admitted before.
C5_RejectedDoesNoWork ==
    /\ \A r \in Reqs :
         /\ loc[r].admit = "rejected" =>
               /\ pc[r] = "rejected"
               /\ loc[r].cache_calls = 0
               /\ loc[r].fetches = 0
               /\ loc[r].generations = 0
         /\ (loc[r].cache_calls > 0 \/ loc[r].fetches > 0 \/ loc[r].generations > 0)
               => loc[r].admit = "allowed"
    /\ Answered =>
         /\ (Log.admit = "rejected") = (Response.status = HTTP_429)
         /\ Log.admit = "rejected" =>
               /\ Log.retry # None
               /\ Log.cache_calls = 0
               /\ Log.fetches = 0
               /\ Log.generations = 0
         /\ Log.admit \in {"allowed", "rejected"}

C5_Witness ==
    /\ Answered
    /\ Log.admit = "rejected"
    /\ Response.status = HTTP_429
    /\ AnsweredKey \in DOMAIN cache
    /\ AnsweredKey \in DOMAIN article_cache

\* C6: every 429 response carries a Retry-After header holding the
\* retry_after that is_allowed computed for the rejection.
C6_RetryAfterHeader ==
    (Answered /\ Response.status = HTTP_429) =>
        /\ Log.retry # None
        /\ Response.headers = Log.retry

\* C7: under every interleaving of the threads running is_allowed for one
\* client, no more than the limit of requests are admitted with timestamps
\* in any 60-second window, and every admitted timestamp less than 60
\* seconds old is in the client's window.
Occurrences(seq, x) == Cardinality({i \in 1..Len(seq) : seq[i] = x})

C7_SafeConcurrentAdmit ==
    \A c \in ServerClients :
        LET a == admitted[c] IN
        /\ \A i \in 1..Len(a) :
             Cardinality({j \in 1..Len(a) : a[i] - Window < a[j] /\ a[j] <= a[i]})
                <= requests_per_minute
        /\ \A i \in 1..Len(a) :
             a[i] > now - Window =>
                Occurrences(ListOf(requests, c), a[i]) >= Occurrences(a, a[i])

\* C8: while a handler waits for the fetch or for the language model, any
\* other request can be taken up: /health can be answered, a request at the
\* socket can be dispatched, and an admitted request can start its handler.
NetWait == {"hit_fetch", "miss_fetch", "llm", "chat_fetch", "chat_llm"}

C8_NoRequestBlocksAnother ==
    (\E r \in Reqs : pc[r] \in NetWait) =>
        /\ ENABLED HealthCheck
        /\ \A o \in Reqs : pc[o] = "queued" => ENABLED Dispatch(o)
        /\ \A o \in Reqs :
             pc[o] = "ready" => ENABLED (SummarizeStart(o) \/ ChatStart(o))

\* C9: requests of /summarize for one query that are in flight together end
\* each with 200 or with the error of their own fetch (404) or generation
\* (500), and every step leaves each table's entry for the key absent or a
\* whole (value, time of the write) pair written by the request that holds
\* the event loop.
C9_Outcome ==
    (Answered /\ ret.op = "summarize" /\ Log.admit = "allowed") =>
        /\ Response.status \in {HTTP_200, HTTP_404, HTTP_500}
        /\ Response.status = HTTP_200 => Truthy(Response.body) /\ Truthy(Response.url)
        /\ Response.status = HTTP_404 => ~FetchedArticle(Log) /\ Log.generations = 0
        /\ Response.status = HTTP_500 =>
              FetchedArticle(Log) /\ Log.generations = 1 /\ ~Log.generated

C9_WholeEntries ==
    /\ \A k \in DOMAIN cache :
         cache[k] \in Summaries \X (0..now)
    /\ \A k \in DOMAIN article_cache :
         article_cache[k] \in (Texts \cup {""}) \X (0..now)

C9_WholeWrites ==
    /\ \A k \in DOMAIN cache' :
         (k \notin DOMAIN cache \/ cache'[k] # cache[k]) =>
            /\ loop # None
            /\ ret'.op = "summarize"
            /\ cache'[k] = <<ret'.val.body[1], now>>
    /\ \A k \in DOMAIN article_cache' :
         (k \notin DOMAIN article_cache \/ article_cache'[k] # article_cache[k]) =>
            /\ loop # None
            /\ \E res \in FetchResults :
                 /\ res[1] # None
                 /\ article_cache'[k] = <<res[1][1], now>>

LiveEntry(table, r) ==
    /\ GenerateKey(Query(r)) \in DOMAIN table
    /\ now - table[GenerateKey(Query(r))][2] < Ttl

\* C14: a /summarize whose cache lookup returned a summary answers 200 with
\* that summary and the URL its fetch returned, without calling
\* summarize_article and without writing the summary cache, whatever the
\* fetch returned.
C14_HitReturnsCached ==
    (Answered /\ ret.op = "summarize" /\ Truthy(Log.cached)) =>
        /\ Response.status = HTTP_200
        /\ Response.body = Log.cached
        /\ Response.url = Log.res[2]
        /\ Log.fetches = 1
        /\ Log.generations = 0
        /\ ~Log.generated

\* C15: no request calls fetch_wikipedia_article more than once, or
\* summarize_article / answer_question more than once.
C15_NoRetries ==
    /\ \A r \in Reqs : loc[r].fetches <= 1 /\ loc[r].generations <= 1
    /\ Answered => Log.fetches <= 1 /\ Log.generations <= 1

\* C16: when a /summarize finds a summary and its fetch returns a text and a
\* URL, it answers with that URL; an article-cache entry that is live is left
\* as it is (value and timestamp), and otherwise the entry becomes the
\* fetched text stamped now.
C16_HitPopulatesColdArticleCache ==
    [][\A r \in Reqs, res \in FetchResults :
         (cache_enabled /\ HitFetchReturn(r, res)
            /\ Truthy(res[1]) /\ Truthy(res[2])) =>
             /\ ret'.val.status = HTTP_200
             /\ ret'.val.url = res[2]
             /\ GenerateKey(Query(r)) \in DOMAIN article_cache'
             /\ article_cache'[GenerateKey(Query(r))] =
                  IF LiveEntry(article_cache, r)
                  THEN article_cache[GenerateKey(Query(r))]
                  ELSE <<res[1][1], now>>]_vars

\* C17: when a /summarize found no cached summary and its fetch returns no
\* text or no URL, the request is answered 404 by ArticleNotFoundError,
\* summarize_article is not called, and both tables stay as they are.
C17_MissWithoutArticleIs404 ==
    [][\A r \in Reqs, res \in FetchResults :
         (MissFetchReturn(r, res) /\ ~Truthy(loc[r].cached)
            /\ (res[1] \in {None, Some("")} \/ res[2] \in {None, Some("")})) =>
             /\ ret'.op = "summarize"
             /\ ret'.val = CustomExceptionHandler(ArticleNotFoundError)
             /\ ret'.val.status = HTTP_404
             /\ ret'.before.generations = 0
             /\ ret'.before.cache_calls = 1
             /\ pc'[r] = "closed"
             /\ cache' = cache
             /\ article_cache' = article_cache]_vars

C17_Witness ==
    /\ Answered
    /\ ret.op = "summarize"
    /\ Response.status = HTTP_404
    /\ Log.cached = None
    /\ Log.fetches = 1
    /\ Log.res = <<Some(""), Some("u1")>>
    /\ cache_enabled
    /\ DOMAIN article_cache = {}

\* C18: when a /summarize found no cached summary and its fetch returns a
\* text and a URL, the text is in the article cache before summarize_article
\* is called; and when summarize_article then returns None or an empty
\* string, the request is answered 500 by SummarizationError, the summary
\* cache stays as it is and the article cache still holds the fetched text.
C18_FailedGenerationKeepsArticle ==
    [][\A r \in Reqs :
         /\ \A res \in FetchResults :
              (MissFetchReturn(r, res) /\ ~Truthy(loc[r].cached)
                 /\ res[1] \notin {None, Some("")}
                 /\ res[2] \notin {None, Some("")}) =>
                  /\ pc'[r] = "llm"
                  /\ loc'[r].generations = 0
                  /\ cache' = cache
                  /\ cache_enabled =>
                       DictGet(article_cache', GenerateKey(Query(r)))
                          = Some(<<res[1][1], now>>)
         /\ \A out \in {None, Some("")} :
              (LLMReturn(r, out) /\ ~Truthy(loc[r].cached)) =>
                  /\ ret'.val = CustomExceptionHandler(SummarizationError)
                  /\ ret'.val.status = HTTP_500
                  /\ cache' = cache
                  /\ article_cache' = article_cache
                  /\ cache_enabled =>
                       /\ GenerateKey(Query(r)) \in DOMAIN article_cache'
                       /\ article_cache'[GenerateKey(Query(r))][1]
                            = loc[r].res[1][1]]_vars

C18_Witness ==
    /\ Answered
    /\ ret.op = "summarize"
    /\ Response = CustomExceptionHandler(SummarizationError)
    /\ Log.cached = None
    /\ Log.generations = 1
    /\ cache_enabled
    /\ AnsweredKey \notin DOMAIN cache
    /\ AnsweredKey \in DOMAIN article_cache
    /\ article_cache[AnsweredKey][1] = Log.res[1][1]
    /\ article_cache[AnsweredKey][2] < now

\* C19: a /chat that finds a live article-cache entry calls no fetch; one
\* that finds none calls one fetch and, when the fetch yields no text, is
\* answered 404 by ArticleNotFoundError after no cache write and no call of
\* answer_question; otherwise the fetched text is in the article cache
\* before answer_question is called.
C19_ChatUsesArticleCacheFirst ==
    /\ \A r \in Reqs :
         (cache_enabled /\ pc[r] = "chat_llm" /\ loc[r].fetches = 1) =>
             /\ GenerateKey(Query(r)) \in DOMAIN article_cache
             /\ article_cache[GenerateKey(Query(r))][1] = loc[r].res[1][1]
    /\ (Answered /\ ret.op = "chat" /\ Log.admit = "allowed") =>
         /\ Log.cached # None => Log.fetches = 0
         /\ Log.cached = None =>
              /\ Log.fetches = 1
              /\ ~Truthy(Log.res[1]) =>
                   /\ Response = CustomExceptionHandler(ArticleNotFoundError)
                   /\ Log.generations = 0
                   /\ Log.cache_calls = 1
              /\ Truthy(Log.res[1]) =>
                   /\ Log.generations = 1
                   /\ Log.cache_calls = 2

\* C20: no step of /chat changes the summary cache, whatever the outcome;
\* the article cache changes only by the lookup dropping an expired entry
\* and by the store of the text just fetched.
C20_AnswersNeverCached ==
    [][\A r \in Reqs :
         /\ ChatStart(r) =>
              /\ cache' = cache
              /\ \/ article_cache' = article_cache
                 \/ /\ GenerateKey(Query(r)) \in DOMAIN article_cache
                    /\ ~LiveEntry(article_cache, r)
                    /\ article_cache' =
                         DictDel(article_cache, GenerateKey(Query(r)))
         /\ \A res \in FetchResults :
              ChatFetchReturn(r, res) =>
                  /\ cache' = cache
                  /\ \/ article_cache' = article_cache
                     \/ /\ res[1] \notin {None, Some("")}
                        /\ article_cache' =
                             DictPut(article_cache, GenerateKey(Query(r)),
                                     <<res[1][1], now>>)
         /\ \A out \in LLMResults :
              ChatLLMReturn(r, out) =>
                  /\ cache' = cache
                  /\ article_cache' = article_cache]_vars

C20_Witness ==
    /\ Answered
    /\ ret.op = "chat"
    /\ Response.status = HTTP_200
    /\ Log.fetches = 1
    /\ cache_enabled
    /\ AnsweredKey \in DOMAIN cache
    /\ cache[AnsweredKey][1] # Response.body[1]
    /\ article_cache[AnsweredKey] = <<Log.res[1][1], ret.at>>

\* ------------------------------------------- claims on the cache's entries
\* the entry of table under key k has reached the TTL at time t
Expired(table, k, t) == k \in DOMAIN table /\ t - table[k][2] >= Ttl

\* C21: a get (get_article) on an entry whose age has reached the TTL
\* deletes that entry from its table and returns None; and a key leaves a
\* table only by such a lookup of that key or by clear: not by the passage
\* of time, a set, or a lookup of another key.  (ret' names the call that
\* the step returns from.)
C21_LazyEvictionOnly ==
    [][/\ (ret'.op = "get" /\ Expired(cache, GenerateKey(ret'.arg), now)) =>
             /\ GetCall(ret'.arg)
             /\ ret'.val = None
             /\ cache' = DictDel(cache, GenerateKey(ret'.arg))
       /\ (/\ ret'.op = "get_article"
           /\ Expired(article_cache, GenerateKey(ret'.arg), now)) =>
             /\ GetArticleCall(ret'.arg)
             /\ ret'.val = None
             /\ article_cache' = DictDel(article_cache, GenerateKey(ret'.arg))
       /\ \A k \in DOMAIN cache \ DOMAIN cache' :
            \/ ClearCall
            \/ /\ ret'.op = "get"
               /\ GenerateKey(ret'.arg) = k
               /\ Expired(cache, k, now)
               /\ GetCall(ret'.arg)
       /\ \A k \in DOMAIN article_cache \ DOMAIN article_cache' :
            \/ ClearCall
            \/ /\ ret'.op = "get_article"
               /\ GenerateKey(ret'.arg) = k
               /\ Expired(article_cache, k, now)
               /\ GetArticleCall(ret'.arg)]_vars

C21_Witness ==
    /\ ret.op = "get"
    /\ ret.before # None
    /\ ret.at - ret.before[1][2] >= Ttl
    /\ ret.val = None
    /\ GenerateKey(ret.arg) \notin DOMAIN cache
    /\ \E k \in DOMAIN cache : Expired(cache, k, now)
    /\ \E k \in DOMAIN article_cache : Expired(article_cache, k, now)

\* the entries that size() reads, split by whether their TTL has elapsed
LiveKeys == {k \in DOMAIN cache : now - cache[k][2] < Ttl}

ExpiredKeys == {k \in DOMAIN cache : now - cache[k][2] >= Ttl}

\* C22: the size that /cache/stats and /health report is the number of
\* entries stored in the summary table, those whose TTL has elapsed
\* included; and that number goes down only in a step that runs get on an
\* expired entry or runs clear.
C22_SizeReported ==
    ret.op \in {"health", "cache_stats"} =>
        ret.val = Some(Cardinality(LiveKeys) + Cardinality(ExpiredKeys))

C22_SizeDrops ==
    Cardinality(DOMAIN cache') < Cardinality(DOMAIN cache) =>
        \/ ClearCache
        \/ \E r \in Reqs :
              /\ Expired(cache, GenerateKey(Query(r)), now)
              /\ SummarizeStart(r)
              /\ DOMAIN cache' = DOMAIN cache \ {GenerateKey(Query(r))}

C22_SizeCountsExpiredEntries ==
    []C22_SizeReported /\ [][C22_SizeDrops]_vars

C22_Witness ==
    /\ ret.op = "cache_stats"
    /\ ret.val = Some(1)
    /\ LiveKeys = {}
    /\ Cardinality(ExpiredKeys) = 1

\* ------------------------------------------ claims on the limiter's windows
\* the called client's window after the call
WindowAfter == ListOf(requests, ret.arg)

\* the timestamps of the window before the call that are not older than a
\* minute at the call
NotOlderThanWindow == SelectSeq(WindowBefore, LAMBDA t : ~(t < ret.at - Window))

\* C23: an is_allowed call with limiting enabled removes from the client's
\* window exactly the timestamps t < now - 60 and keeps all others, and
\* compares the number of those kept with the limit.
C23_PrunesExactlyOlder ==
    (rate_limit_enabled /\ ret.op = "is_allowed") =>
        /\ RetAllowed = (Len(NotOlderThanWindow) < requests_per_minute)
        /\ WindowAfter = IF RetAllowed
                         THEN Append(NotOlderThanWindow, ret.at)
                         ELSE NotOlderThanWindow

\* a rejection by is_allowed with limiting enabled
Rejected == rate_limit_enabled /\ ret.op = "is_allowed" /\ ~RetAllowed

\* 60 s minus the age of the oldest timestamp left in the window, in time
\* units
Remaining == Window - (ret.at - SeqMin(WindowAfter))

\* floor and ceiling of n time units in whole seconds
FloorSeconds(n) == n \div Res

CeilSeconds(n) == -((-n) \div Res)

\* C24 as stated: on rejection retry_after = ceil(60 - (now - oldest)) + 1,
\* oldest being the smallest timestamp left after pruning, for whole and
\* fractional ages alike.
C24_RetryAfterCeilPlusOne ==
    Rejected => RetRetry = Some(CeilSeconds(Remaining) + 1)

\* C24 amended: on rejection retry_after = floor(60 - (now - oldest)) + 1,
\* which is ceil(60 - (now - oldest)) + 1 when the age of the oldest
\* timestamp is a whole number of seconds and ceil(60 - (now - oldest))
\* when it is not.
C24_RetryAfterFloorPlusOne ==
    Rejected =>
        /\ RetRetry = Some(FloorSeconds(Remaining) + 1)
        /\ RetRetry = Some(IF Remaining % Res = 0
                           THEN CeilSeconds(Remaining) + 1
                           ELSE CeilSeconds(Remaining))

C24_Witness ==
    /\ Rejected
    /\ Remaining % Res # 0
    /\ Len(WindowAfter) = 2
    /\ WindowAfter[1] # WindowAfter[2]
    /\ RetRetry = Some(CeilSeconds(Remaining))

\* the client had been rejected since its last admission when it called
RejectedBefore == ret.before[2] # None

\* the oldest timestamp of the window before the call is more than 60 s old
OldestHasLeft ==
    WindowBefore # <<>> /\ SeqMin(WindowBefore) < ret.at - Window

\* C25: a rejected is_allowed call records nothing: the window it leaves
\* holds only timestamps the window held before, each no more often than
\* before, and not the time of the call; so a client that called while
\* rejected is admitted by the first call made after its oldest timestamp
\* has left the 60-second window.
C25_RejectionNotRecorded ==
    /\ Rejected =>
          /\ \A i \in 1..Len(WindowAfter) :
                Occurrences(WindowAfter, WindowAfter[i])
                    <= Occurrences(WindowBefore, WindowAfter[i])
          /\ Len(WindowAfter) <= Len(WindowBefore)
          /\ Len(WindowAfter) = requests_per_minute
    /\ (rate_limit_enabled /\ ret.op = "is_allowed" /\ OldestHasLeft) =>
          /\ RetAllowed
          /\ WindowAfter[Len(WindowAfter)] = ret.at

C25_Witness ==
    /\ rate_limit_enabled
    /\ ret.op = "is_allowed"
    /\ RejectedBefore
    /\ OldestHasLeft
    /\ Len(WindowBefore) = requests_per_minute
    /\ RetAllowed
    /\ \A i \in 1..Len(WindowBefore) : WindowBefore[i] = 0

\* the limiter's map with every client but c forgotten
OwnWindowOnly(c) == [k \in DOMAIN requests \cap {c} |-> requests[k]]

\* C26: is_allowed(c) and reset(c) leave the window of every other client
\* as it is (present or absent, with the same timestamps), and the verdict
\* and retry hint of is_allowed(c) are those it gives when the limiter
\* holds the window of c alone.
C26_WindowsIsolated ==
    [][\A c \in Clients :
         /\ (Admit(c) \/ Reset(c)) =>
               \A d \in Clients \ {c} :
                   DictGet(requests', d) = DictGet(requests, d)
         /\ Admit(c) =>
               LET alone == IsAllowed(rate_limit_enabled, requests_per_minute,
                                      OwnWindowOnly(c), c, now)
               IN  /\ ret'.val = <<alone.allowed, alone.retry_after>>
                   /\ DictGet(requests', c) = DictGet(alone.requests, c)]_vars

C26_Witness ==
    /\ Rejected
    /\ ret.arg = "c1"
    /\ "c2" \in DOMAIN requests
    /\ requests["c2"] # <<>>
    /\ SelectSeqGt(requests["c2"], now - Window) = <<>>

\* the entry of table under key k is younger than the TTL at time t
Live(table, k, t) == k \in DOMAIN table /\ t - table[k][2] < Ttl

\* C27: a get (get_article) on a live entry returns its value and leaves
\* the table as it is, value and timestamp of the entry included; and the
\* timestamp of a stored entry changes only when set (set_article) writes
\* that key, so the entry's expiry stays one TTL after its last write
\* however often it is read.
C27_HitKeepsTimestamp ==
    [][/\ (ret'.op = "get" /\ Live(cache, GenerateKey(ret'.arg), now)) =>
             /\ GetCall(ret'.arg)
             /\ ret'.val = Some(cache[GenerateKey(ret'.arg)][1])
             /\ cache' = cache
       /\ (/\ ret'.op = "get_article"
           /\ Live(article_cache, GenerateKey(ret'.arg), now)) =>
             /\ GetArticleCall(ret'.arg)
             /\ ret'.val = Some(article_cache[GenerateKey(ret'.arg)][1])
             /\ article_cache' = article_cache
       /\ \A k \in DOMAIN cache \cap DOMAIN cache' :
            cache'[k] # cache[k] =>
                /\ ret'.op = "set"
                /\ GenerateKey(ret'.arg) = k
                /\ SetCall(ret'.arg, ret'.val[1])
                /\ cache'[k] = <<ret'.val[1], now>>
       /\ \A k \in DOMAIN article_cache \cap DOMAIN article_cache' :
            article_cache'[k] # article_cache[k] =>
                /\ ret'.op = "set_article"
                /\ GenerateKey(ret'.arg) = k
                /\ SetArticleCall(ret'.arg, ret'.val[1])
                /\ article_cache'[k] = <<ret'.val[1], now>>]_vars

C27_Witness ==
    /\ ret.op = "get"
    /\ ret.before # None
    /\ ret.val = Some(ret.before[1][1])
    /\ ret.at - ret.before[1][2] = Ttl - 1
    /\ DictGet(cache, GenerateKey(ret.arg)) = ret.before
    /\ ticks = 2

\* --------------------------------------- claims on the stored summaries
\* request r has stored the text of its fetch in the article cache
ArticleStoredBy(r) ==
    /\ Truthy(loc[r].res[1])
    /\ loc[r].cache_calls >= 2
    /\ cache_enabled =>
          /\ GenerateKey(Query(r)) \in DOMAIN article_cache
          /\ article_cache[GenerateKey(Query(r))][1] = loc[r].res[1][1]
          /\ article_cache[GenerateKey(Query(r))][2] <= now
          /\ rate_limit_enabled =>
                article_cache[GenerateKey(Query(r))][2] >= loc[r].t

\* every stored summary is a non-empty string
C28_SummariesNonEmpty ==
    \A k \in DOMAIN cache : cache[k][1] \in Summaries /\ cache[k][1] # ""

\* a request waiting for summarize_article has stored its article
C28_ArticleFirst ==
    \A r \in Reqs : pc[r] = "llm" => ArticleStoredBy(r)

\* a step that creates or changes a summary entry is the return of a
\* non-empty completion to a request that has stored its article
C28_WrittenAfterGeneration ==
    \A k \in DOMAIN cache' :
        (k \notin DOMAIN cache \/ cache'[k] # cache[k]) =>
            \E r \in Reqs, out \in LLMResults :
                /\ out # Raised
                /\ Truthy(out)
                /\ pc[r] = "llm"
                /\ LLMReturn(r, out)
                /\ k = GenerateKey(Query(r))
                /\ cache'[k] = <<out[1], now>>
                /\ ArticleStoredBy(r)

\* C28: in every reachable state every entry of the summary cache holds a
\* non-empty summary; a summary entry is written only when
\* summarize_article has returned a non-empty result, and the request that
\* writes it has stored the article of the same key in the article cache
\* before.
C28_NoEmptySummaryCached ==
    [](C28_SummariesNonEmpty /\ C28_ArticleFirst)
        /\ [][C28_WrittenAfterGeneration]_vars

C28_Witness ==
    /\ Answered
    /\ ret.op = "summarize"
    /\ cache_enabled
    /\ Response.status = HTTP_200
    /\ Log.generated
    /\ Truthy(Log.cached)
    /\ cache[AnsweredKey] = <<Response.body[1], ret.at>>
    /\ Log.cached # Response.body
    /\ article_cache[AnsweredKey][1] = Log.res[1][1]
    /\ article_cache[AnsweredKey][2] < ret.at

====
